---- MODULE Spec2Model ----
(***************************************************************************)
(* Model of .agent/skills/memory/scripts/memory.py: git-based staleness    *)
(* detection for documentation.                                            *)
(*                                                                         *)
(* Strings are sequences of tokens.  The tokens ".", "/" and "\n" are      *)
(* single characters; "d", "m.py", "n.go" and "doc.md" are name fragments  *)
(* (a directory name, two code file names, a markdown file name); "L" is   *)
(* a run of LongRunLen name characters.  A path held by pathlib is the     *)
(* sequence of its components below "/", each component a token sequence.  *)
(* Optional values are <<>> (None) or <<v>>.                               *)
(***************************************************************************)
EXTENDS Integers, Sequences, FiniteSets, TLC

VARIABLES
    rpc,          \* resolve_path harness: "idle" | "returned"
    rcall,        \* arguments and filesystem of the last resolve_path call
    rret,         \* what resolve_path returned
    cpc,          \* check_staleness harness: "idle" | "returned"
    world,        \* environment (git, parser, filesystem) of the last check_staleness call
    result,       \* StalenessResult returned by the last check_staleness call
    scanned,      \* whether that call ran get_code_files_in_dir
    vpc,          \* position in cmd_validate
    is_dir,       \* cmd_validate argument
    ndocs,        \* len(docs) in directory mode
    idx,          \* index of the next document of the loop "for doc in docs"
    evaluated,    \* per document: how many times the loop evaluated it
    outcomes,     \* per evaluated document: [error, stale] of its result
    stale_count,  \* cmd_validate local
    error_count,  \* cmd_validate local
    exit_code     \* Optional return value of cmd_validate

vars == <<rpc, rcall, rret, cpc, world, result, scanned, vpc, is_dir, ndocs, idx,
          evaluated, outcomes, stale_count, error_count, exit_code>>

\* ------------------------------------------------------------------ bounds

MaxRefLen == 4
MaxDeps == 2
MaxDocs == 3

\* ------------------------------------------------------- program constants

MAX_REF_CHARS == 200
SECONDS_PER_DAY == 86400
SECONDS_PER_HOUR == 3600

\* ------------------------------------------------------------------ values

None == <<>>
Some(v) == <<v>>

LongRunLen == MAX_REF_CHARS + 1

TokLen(t) ==
    CASE t = "L" -> LongRunLen
      [] t = "m.py" -> 4
      [] t = "n.go" -> 4
      [] t = "doc.md" -> 6
      [] OTHER -> 1

RECURSIVE StrLen(_)
StrLen(s) == IF s = <<>> THEN 0 ELSE TokLen(Head(s)) + StrLen(Tail(s))

Contains(s, t) == \E i \in 1..Len(s) : s[i] = t

StartsWith(s, p) == Len(s) >= Len(p) /\ SubSeq(s, 1, Len(p)) = p

DropFirst(s, n) == SubSeq(s, n + 1, Len(s))

\* --------------------------------------------------------------- pathlib

\* str.split('/'): the components between slashes, empty ones included.
RECURSIVE SplitSlash(_)
SplitSlash(s) ==
    IF s = <<>> THEN << <<>> >>
    ELSE LET rest == SplitSlash(Tail(s)) IN
         IF Head(s) = "/" THEN << <<>> >> \o rest
         ELSE << <<Head(s)>> \o Head(rest) >> \o Tail(rest)

\* PurePosixPath parsing: empty and "." components are dropped.
PathParts(s) ==
    SelectSeq(SplitSlash(s), LAMBDA c : c # <<>> /\ c # <<".">>)

IsAbsolute(s) == s # <<>> /\ s[1] = "/"

\* base_dir / relative_path: an absolute right operand replaces the left one.
JoinPath(base_dir, s) ==
    IF IsAbsolute(s) THEN PathParts(s) ELSE base_dir \o PathParts(s)

\* Path.resolve() on a tree without symbolic links: ".." removes the
\* component before it and is dropped at the root.
RECURSIVE NormalizeParts(_, _)
NormalizeParts(acc, rest) ==
    IF rest = <<>> THEN acc
    ELSE IF Head(rest) = <<".", ".">>
         THEN NormalizeParts(IF acc = <<>> THEN acc ELSE SubSeq(acc, 1, Len(acc) - 1),
                             Tail(rest))
         ELSE NormalizeParts(Append(acc, Head(rest)), Tail(rest))

ResolveParts(p) == NormalizeParts(<<>>, p)

\* Path.parent
Parent(p) == IF p = <<>> THEN p ELSE SubSeq(p, 1, Len(p) - 1)

\* resolved.relative_to(project_root) does not raise ValueError
IsRelativeTo(p, root) == Len(p) >= Len(root) /\ SubSeq(p, 1, Len(root)) = root

\* ------------------------------------------------------------ file system

Dir == <<"d">>
CodeM == <<"m.py">>
CodeN == <<"n.go">>
DocName == <<"doc.md">>

PROJECT_ROOT == <<Dir>>
SubDir == <<Dir, Dir>>
Directories == {<<>>, PROJECT_ROOT, SubDir}

OutsideFile == <<CodeM>>
RootFile == <<Dir, CodeM>>
SubFileM == <<Dir, Dir, CodeM>>
SubFileN == <<Dir, Dir, CodeN>>

\* A file system is [files: the regular files present, denied: whether stat()
\* and listing fail with PermissionError].
PathExists(p, fs) == p \in Directories \/ p \in fs.files

\* ----------------------------------------------------------- resolve_path

Skip(reason) == [path |-> None, reason |-> Some(reason)]
NotFound == [path |-> None, reason |-> None]
Found(p) == [path |-> Some(p), reason |-> None]

TooLong == "Path too long (>200 chars)"
HasNewline == "Path contains newline"
NeedsPrefix == "Use ./ prefix for paths with directories"
Escapes == "Path escapes project directory"
ResolveError == "Error resolving path"

DotSlash == <<".", "/">>
DotDotSlash == <<".", ".", "/">>

\* The retry of resolve_path with the leading "./" removed.
resolve_retry(base_dir, relative_path, project_root, fs) ==
    LET resolved == ResolveParts(JoinPath(base_dir, DropFirst(relative_path, 2))) IN
    IF ~IsRelativeTo(resolved, project_root) THEN Skip(Escapes)
    ELSE IF fs.denied THEN Skip(ResolveError)
    ELSE IF PathExists(resolved, fs) THEN Found(resolved)
    ELSE NotFound

\* resolve_path with the containment check of the first attempt left out
resolve_path_unchecked(base_path, relative_path, project_root, fs) ==
    IF StrLen(relative_path) > MAX_REF_CHARS THEN Skip(TooLong)
    ELSE IF Contains(relative_path, "\n") THEN Skip(HasNewline)
    ELSE IF /\ ~StartsWith(relative_path, DotSlash)
            /\ ~StartsWith(relative_path, DotDotSlash)
            /\ Contains(relative_path, "/")
         THEN Skip(NeedsPrefix)
    ELSE LET base_dir == Parent(base_path)
             resolved == ResolveParts(JoinPath(base_dir, relative_path)) IN
         IF fs.denied THEN Skip(ResolveError)
         ELSE IF PathExists(resolved, fs) THEN Found(resolved)
         ELSE IF StartsWith(relative_path, DotSlash)
              THEN resolve_retry(base_dir, relative_path, project_root, fs)
         ELSE NotFound

resolve_path(base_path, relative_path, project_root, fs) ==
    IF StrLen(relative_path) > MAX_REF_CHARS THEN Skip(TooLong)
    ELSE IF Contains(relative_path, "\n") THEN Skip(HasNewline)
    ELSE IF /\ ~StartsWith(relative_path, DotSlash)
            /\ ~StartsWith(relative_path, DotDotSlash)
            /\ Contains(relative_path, "/")
         THEN Skip(NeedsPrefix)
    ELSE LET base_dir == Parent(base_path)
             resolved == ResolveParts(JoinPath(base_dir, relative_path)) IN
         IF ~IsRelativeTo(resolved, project_root) THEN Skip(Escapes)
         ELSE IF fs.denied THEN Skip(ResolveError)
         ELSE IF PathExists(resolved, fs) THEN Found(resolved)
         ELSE IF StartsWith(relative_path, DotSlash)
              THEN resolve_retry(base_dir, relative_path, project_root, fs)
         ELSE NotFound

\* -------------------------------------------------------------------- git

\* What run_git returns: (stdout, error).  stdout is empty, a run of digits
\* (val is the number they spell) or some other text.
GitOutput(kind, val) == [out |-> [kind |-> kind, val |-> val], err |-> None]
GitFailure(msg) == [out |-> [kind |-> "empty", val |-> 0], err |-> Some(msg)]

NotARepo == "Not a git repository"
InvalidTimestamp == "Invalid git timestamp"

get_last_commit_time(git) ==
    IF git.err # None THEN [time |-> None, error |-> git.err]
    ELSE IF git.out.kind = "empty" THEN [time |-> None, error |-> None]
    ELSE IF git.out.kind = "digits" THEN [time |-> Some(git.out.val), error |-> None]
    ELSE [time |-> None, error |-> Some(InvalidTimestamp)]

\* ----------------------------------------------------- get_code_files_in_dir

CODE_EXTENSIONS == {".ts", ".tsx", ".js", ".jsx", ".py", ".go", ".rs", ".java"}

\* Path.suffix of a file name
Suffix(name) ==
    IF name = <<>> THEN ""
    ELSE CASE name[Len(name)] = "m.py" -> ".py"
           [] name[Len(name)] = "n.go" -> ".go"
           [] name[Len(name)] = "doc.md" -> ".md"
           [] OTHER -> ""

PermissionDeniedDir == "Permission denied reading directory"

\* dir_order is the order in which iterdir() yields the directory's entries.
get_code_files_in_dir(dir_path, fs, dir_order) ==
    IF dir_path \notin Directories THEN [files |-> <<>>, error |-> None]
    ELSE IF fs.denied THEN [files |-> <<>>, error |-> Some(PermissionDeniedDir)]
    ELSE [files |-> SelectSeq(dir_order,
                       LAMBDA f : /\ f \in fs.files
                                  /\ Parent(f) = dir_path
                                  /\ Suffix(f[Len(f)]) \in CODE_EXTENSIONS),
          error |-> None]

\* ---------------------------------------------------------- check_staleness

\* The dataclass StalenessResult with its defaults (stale is always passed
\* as False where the defaults are used).
DefaultResult ==
    [stale |-> FALSE, doc_time |-> None, newest_code_time |-> None,
     newest_code_file |-> None, days_behind |-> 0, hours_behind |-> 0,
     deps_source |-> "none", deps_count |-> 0, error |-> None, reason |-> None]

RECURSIVE resolve_deps(_, _, _, _)
resolve_deps(doc_path, deps, project_root, fs) ==
    IF deps = <<>> THEN <<>>
    ELSE LET r == resolve_path(doc_path, Head(deps), project_root, fs) IN
         (IF r.path # None THEN r.path ELSE <<>>)
             \o resolve_deps(doc_path, Tail(deps), project_root, fs)

deps_source_of(resolved_deps) ==
    IF resolved_deps # <<>> THEN "explicit" ELSE "directory"

\* the fallback taken whenever fewer than two dependencies resolved
use_fallback_few(resolved_deps) == Len(resolved_deps) < 2

\* The guard of the fallback: "if not resolved_deps".
use_fallback(resolved_deps) == resolved_deps = <<>>

\* "if dep_time:" -- the truth value of an Optional[int]
dep_time_counts(q) == q.time # None /\ q.time[1] # 0

\* The loop that finds the newest dependency; the error of each query is
\* assigned to "_" and dropped.
RECURSIVE newest_scan(_, _, _)
newest_scan(resolved_deps, git, acc) ==
    IF resolved_deps = <<>> THEN acc
    ELSE LET dep_path == Head(resolved_deps)
             q == get_last_commit_time(git[dep_path])
             next == IF dep_time_counts(q)
                     THEN [checked_deps |-> Append(acc.checked_deps,
                                                    [path |-> dep_path, time |-> q.time[1]]),
                           newest_time |-> IF q.time[1] > acc.newest_time
                                           THEN q.time[1] ELSE acc.newest_time,
                           newest_file |-> IF q.time[1] > acc.newest_time
                                           THEN Some(dep_path) ELSE acc.newest_file]
                     ELSE acc
         IN newest_scan(Tail(resolved_deps), git, next)

\* the comparison with >= in place of >
is_stale_or_equal(newest_time, doc_time) == newest_time >= doc_time

is_stale_of(newest_time, doc_time) == newest_time > doc_time

days_behind_of(time_diff) == time_diff \div SECONDS_PER_DAY

\* the hours without the days taken out
hours_behind_total(time_diff) == time_diff \div SECONDS_PER_HOUR

hours_behind_of(time_diff) == (time_diff % SECONDS_PER_DAY) \div SECONDS_PER_HOUR

NotTracked == "Doc not tracked by git"
NoDependencies == "No dependencies found"
DepsNotTracked == "Dependencies not tracked by git"

\* The environment a call of check_staleness runs in:
\*   doc_path   the document
\*   git        run_git's answer for the document and for every file
\*   parsed     what the extractor of the document's dialect returns
\*   fs         the file system
\*   dir_order  the iteration order of the document's directory
\* The value is [result, scanned]: the StalenessResult, and whether
\* get_code_files_in_dir was called.
check_staleness_run(w, project_root) ==
    LET doc == get_last_commit_time(w.git[w.doc_path]) IN
    IF doc.error # None
    THEN [result |-> [DefaultResult EXCEPT !.error = doc.error], scanned |-> FALSE]
    ELSE IF doc.time = None
    THEN [result |-> [DefaultResult EXCEPT !.error = Some(NotTracked)], scanned |-> FALSE]
    ELSE IF w.parsed.error # None
    THEN [result |-> [DefaultResult EXCEPT !.doc_time = doc.time,
                                           !.error = w.parsed.error,
                                           !.deps_source = "none"],
          scanned |-> FALSE]
    ELSE
    LET explicit == resolve_deps(w.doc_path, w.parsed.deps, project_root, w.fs)
        deps_source == deps_source_of(explicit)
        fallback == use_fallback(explicit)
        listing == get_code_files_in_dir(Parent(w.doc_path), w.fs, w.dir_order)
        resolved_deps == IF fallback THEN listing.files ELSE explicit
    IN
    IF fallback /\ listing.error # None
    THEN [result |-> [DefaultResult EXCEPT !.doc_time = doc.time,
                                           !.deps_source = "directory",
                                           !.error = listing.error],
          scanned |-> TRUE]
    ELSE IF resolved_deps = <<>>
    THEN [result |-> [DefaultResult EXCEPT !.doc_time = doc.time,
                                           !.deps_source = deps_source,
                                           !.reason = Some(NoDependencies)],
          scanned |-> fallback]
    ELSE
    LET scan == newest_scan(resolved_deps, w.git,
                            [checked_deps |-> <<>>, newest_time |-> 0,
                             newest_file |-> None])
    IN
    IF scan.newest_time = 0
    THEN [result |-> [DefaultResult EXCEPT !.doc_time = doc.time,
                                           !.deps_source = deps_source,
                                           !.deps_count = Len(resolved_deps),
                                           !.reason = Some(DepsNotTracked)],
          scanned |-> fallback]
    ELSE
    LET is_stale == is_stale_of(scan.newest_time, doc.time[1])
        time_diff == IF is_stale THEN scan.newest_time - doc.time[1] ELSE 0
    IN [result |-> [DefaultResult EXCEPT !.stale = is_stale,
                                         !.doc_time = doc.time,
                                         !.newest_code_time = Some(scan.newest_time),
                                         !.newest_code_file = scan.newest_file,
                                         !.days_behind = days_behind_of(time_diff),
                                         !.hours_behind = hours_behind_of(time_diff),
                                         !.deps_source = deps_source,
                                         !.deps_count = Len(scan.checked_deps)],
        scanned |-> fallback]

check_staleness(w, project_root) == check_staleness_run(w, project_root).result

\* ------------------------------------------------------------ environments

RECURSIVE SeqsUpTo(_, _)
SeqsUpTo(S, n) ==
    IF n = 0 THEN {<<>>}
    ELSE LET shorter == SeqsUpTo(S, n - 1) IN
         shorter \cup {Append(s, x) : s \in {t \in shorter : Len(t) = n - 1}, x \in S}

\* Inputs of resolve_path
RefTokens == {".", "/", "d", "m.py", "L", "\n"}
RawRefs == SeqsUpTo(RefTokens, MaxRefLen)
BasePaths == {<<Dir, DocName>>, <<Dir, Dir, DocName>>}
ResolveFileSystems ==
    [files : SUBSET {OutsideFile, RootFile, SubFileM}, denied : BOOLEAN]

NoCall == [base_path |-> <<>>, relative_path |-> <<>>,
           fs |-> [files |-> {}, denied |-> FALSE]]

\* Inputs of check_staleness
DocPath == <<Dir, Dir, DocName>>
Times == {0, 1000, 91000, 1000000}
Untracked == GitOutput("empty", 0)
TrackedResults == {GitOutput("digits", t) : t \in Times}
GitResults ==
    {GitFailure(NotARepo), Untracked, GitOutput("text", 0)} \cup TrackedResults

RefSibling == <<".", "/", "m.py">>
RefParent == <<".", ".", "/", "m.py">>
RefOutside == <<".", ".", "/", ".", ".", "/", "m.py">>
DocRefs == {RefSibling, RefParent, RefOutside}
DepLists == SeqsUpTo(DocRefs, MaxDeps)

ProjectFiles == {RootFile, SubFileM, SubFileN}
GitDomain == {DocPath} \cup ProjectFiles

\* The state of a project file: absent, or present with run_git's answer.
Absent == GitOutput("absent", 0)
FileStates == [ProjectFiles -> {Absent} \cup GitResults]
NoFiles == [f \in ProjectFiles |-> Absent]
FilesOf(fm) == {f \in ProjectFiles : fm[f] # Absent}

Parsed(deps) == [deps |-> deps, error |-> None]
ParseFailure == [deps |-> <<>>, error |-> Some("File is not valid UTF-8")]
ParseOutcomes == {ParseFailure} \cup {Parsed(deps) : deps \in DepLists}

\* A file outside the project always exists; an absent file has no history.
World(doc_git, parsed, denied, fm, reversed) ==
    [doc_path |-> DocPath,
     git |-> [f \in GitDomain |-> IF f = DocPath THEN doc_git
                                  ELSE IF fm[f] = Absent THEN Untracked ELSE fm[f]],
     parsed |-> parsed,
     fs |-> [files |-> FilesOf(fm) \cup {OutsideFile}, denied |-> denied],
     dir_order |-> IF reversed THEN <<SubFileN, SubFileM>> ELSE <<SubFileM, SubFileN>>]

\* Environments are enumerated up to the parts a call never reads: after an
\* early return (document query failed or untracked, parse error) and when
\* the file system denies access, the files and their histories are not read;
\* the directory order matters only when both files of the directory exist.
Canonical(doc_git, parsed, denied, fm, reversed) ==
    /\ doc_git \notin TrackedResults => parsed = Parsed(<<>>) /\ ~denied
    /\ parsed.error # None => ~denied
    /\ (doc_git \notin TrackedResults \/ parsed.error # None \/ denied) => fm = NoFiles
    /\ reversed => {SubFileM, SubFileN} \subseteq FilesOf(fm)

NoWorld == World(Untracked, Parsed(<<>>), FALSE, NoFiles, FALSE)

\* ------------------------------------------------------------------ states

InitAll ==
    /\ rpc = "idle" /\ rcall = NoCall /\ rret = NotFound
    /\ cpc = "idle" /\ world = NoWorld /\ result = DefaultResult /\ scanned = FALSE
    /\ vpc = "start" /\ is_dir = FALSE /\ ndocs = 0 /\ idx = 1
    /\ evaluated = <<>> /\ outcomes = <<>>
    /\ stale_count = 0 /\ error_count = 0 /\ exit_code = None

ResolveVars == <<rpc, rcall, rret>>
CheckVars == <<cpc, world, result, scanned>>
ValidateVars == <<vpc, is_dir, ndocs, idx, evaluated, outcomes, stale_count,
                  error_count, exit_code>>

\* --------------------------------------------------- calls of resolve_path

ResolveCall ==
    /\ rpc = "idle"
    /\ \E b \in BasePaths, r \in RawRefs, fs \in ResolveFileSystems :
          /\ rcall' = [base_path |-> b, relative_path |-> r, fs |-> fs]
          /\ rret' = resolve_path(b, r, PROJECT_ROOT, fs)
    /\ rpc' = "returned"
    /\ UNCHANGED <<CheckVars, ValidateVars>>

ResolveReturn ==
    /\ rpc = "returned"
    /\ rpc' = "idle"
    /\ rcall' = NoCall
    /\ rret' = NotFound
    /\ UNCHANGED <<CheckVars, ValidateVars>>

NextResolve == ResolveCall \/ ResolveReturn

SpecResolve == InitAll /\ [][NextResolve]_vars

\* ------------------------------------------------ calls of check_staleness

CheckCall ==
    /\ cpc = "idle"
    /\ \E doc_git \in GitResults, parsed \in ParseOutcomes, denied \in BOOLEAN,
          fm \in FileStates, reversed \in BOOLEAN :
          LET w == World(doc_git, parsed, denied, fm, reversed)
              run == check_staleness_run(w, PROJECT_ROOT) IN
          /\ Canonical(doc_git, parsed, denied, fm, reversed)
          /\ world' = w
          /\ result' = run.result
          /\ scanned' = run.scanned
    /\ cpc' = "returned"
    /\ UNCHANGED <<ResolveVars, ValidateVars>>

CheckReturn ==
    /\ cpc = "returned"
    /\ cpc' = "idle"
    /\ world' = NoWorld
    /\ result' = DefaultResult
    /\ scanned' = FALSE
    /\ UNCHANGED <<ResolveVars, ValidateVars>>

NextCheck == CheckCall \/ CheckReturn

SpecCheck == InitAll /\ [][NextCheck]_vars

\* ------------------------------------------------------------ cmd_validate

\* The environments of the documents a run of cmd_validate evaluates: the
\* document declares its sibling m.py or cannot be parsed.
BatchParseOutcomes == {ParseFailure, Parsed(<<RefSibling>>)}
BatchFileStates ==
    {[f \in ProjectFiles |-> IF f = SubFileM THEN g ELSE Absent] :
        g \in {Absent} \cup GitResults}

\* "if result.error: ... elif result.stale: ..." of the directory loop
count_result(counts, r) ==
    IF r.error # None
    THEN [counts EXCEPT !.error_count = @ + 1]
    ELSE IF r.stale
    THEN [counts EXCEPT !.stale_count = @ + 1]
    ELSE counts

\* The return value after the directory loop
dir_exit_code(stale, errors) ==
    IF stale = 0 /\ errors = 0 THEN 0
    ELSE IF stale > 0 THEN 1
    ELSE 2

\* The return value for one document
file_exit_code(r) ==
    IF r.error # None THEN 2
    ELSE IF r.stale THEN 1
    ELSE 0

\* a loop that stops at the first document in error
next_doc_break(i, r) == IF r.error # None THEN ndocs + 1 ELSE i + 1

\* The index the loop handles after document i
next_doc(i, r) == i + 1

\* Directory mode up to the loop: the path is no directory or cannot be
\* walked (2), no markdown file is found (0), or the loop starts.
ValidateDirStart ==
    /\ vpc = "start"
    /\ is_dir' = TRUE
    /\ \E path_is_dir \in BOOLEAN, walk_fails \in BOOLEAN, n \in 0..MaxDocs :
          IF ~path_is_dir \/ walk_fails
          THEN /\ n = 0
               /\ vpc' = "exit" /\ exit_code' = Some(2)
               /\ UNCHANGED <<ndocs, evaluated>>
          ELSE IF n = 0
          THEN /\ vpc' = "exit" /\ exit_code' = Some(0)
               /\ UNCHANGED <<ndocs, evaluated>>
          ELSE /\ vpc' = "loop" /\ ndocs' = n
               /\ evaluated' = [i \in 1..n |-> 0]
               /\ UNCHANGED exit_code
    /\ UNCHANGED <<idx, outcomes, stale_count, error_count, ResolveVars, CheckVars>>

\* One iteration of "for doc in docs"
ValidateDirStep ==
    /\ vpc = "loop"
    /\ idx <= ndocs
    /\ \E doc_git \in GitResults, parsed \in BatchParseOutcomes, fm \in BatchFileStates :
          LET w == World(doc_git, parsed, FALSE, fm, FALSE)
              run == check_staleness_run(w, PROJECT_ROOT)
              r == run.result
              counts == count_result([stale_count |-> stale_count,
                                      error_count |-> error_count], r) IN
          /\ Canonical(doc_git, parsed, FALSE, fm, FALSE)
          /\ world' = w
          /\ result' = r
          /\ scanned' = run.scanned
          /\ stale_count' = counts.stale_count
          /\ error_count' = counts.error_count
          /\ evaluated' = [evaluated EXCEPT ![idx] = @ + 1]
          /\ outcomes' = Append(outcomes, [error |-> r.error # None, stale |-> r.stale])
          /\ idx' = next_doc(idx, r)
    /\ UNCHANGED <<vpc, is_dir, ndocs, exit_code, cpc, ResolveVars>>

\* After the loop
ValidateDirFinish ==
    /\ vpc = "loop"
    /\ idx > ndocs
    /\ vpc' = "exit"
    /\ exit_code' = Some(dir_exit_code(stale_count, error_count))
    /\ UNCHANGED <<is_dir, ndocs, idx, evaluated, outcomes, stale_count,
                   error_count, ResolveVars, CheckVars>>

\* Single-document mode
ValidateFile ==
    /\ vpc = "start"
    /\ is_dir' = FALSE
    /\ \E path_is_file \in BOOLEAN :
          IF ~path_is_file
          THEN /\ vpc' = "exit" /\ exit_code' = Some(2)
               /\ UNCHANGED <<ndocs, evaluated, outcomes, CheckVars>>
          ELSE \E doc_git \in GitResults, parsed \in BatchParseOutcomes,
                  fm \in BatchFileStates :
               LET w == World(doc_git, parsed, FALSE, fm, FALSE)
                   run == check_staleness_run(w, PROJECT_ROOT)
                   r == run.result IN
               /\ Canonical(doc_git, parsed, FALSE, fm, FALSE)
               /\ world' = w
               /\ result' = r
               /\ scanned' = run.scanned
               /\ ndocs' = 1
               /\ evaluated' = [i \in 1..1 |-> 1]
               /\ outcomes' = <<[error |-> r.error # None, stale |-> r.stale]>>
               /\ vpc' = "exit"
               /\ exit_code' = Some(file_exit_code(r))
               /\ UNCHANGED cpc
    /\ UNCHANGED <<idx, stale_count, error_count, ResolveVars>>

Next == ValidateDirStart \/ ValidateDirStep \/ ValidateDirFinish \/ ValidateFile

Spec == InitAll /\ [][Next]_vars

\* ================================================================== claims

\* ---------------------------------------------------------- resolve_path

RefJoined ==
    ResolveParts(JoinPath(Parent(rcall.base_path), rcall.relative_path))

RefOutsideRoot == ~IsRelativeTo(RefJoined, PROJECT_ROOT)

PassesRejectionRules ==
    /\ StrLen(rcall.relative_path) <= MAX_REF_CHARS
    /\ ~Contains(rcall.relative_path, "\n")
    /\ \/ StartsWith(rcall.relative_path, DotSlash)
       \/ StartsWith(rcall.relative_path, DotDotSlash)
       \/ ~Contains(rcall.relative_path, "/")

\* C3 as stated: every reference whose join with the document's directory
\* normalizes outside the project root is answered with no path and the
\* containment-violation reason.
C3_OutsideAlwaysContainmentReason ==
    (rpc = "returned" /\ RefOutsideRoot) => rret = Skip(Escapes)

\* C3 amended: a reference that normalizes outside the project root is never
\* answered with a path and always with some reason; the reason is the
\* containment violation when the reference passes the three rejection rules
\* that run first (an over-long reference, one with a newline, or one with a
\* "/" and no "./" or "../" prefix is rejected with that rule's reason); and
\* no returned path, from the first attempt or from the retry, lies outside
\* the project root.
C3_Containment ==
    rpc = "returned" =>
        /\ RefOutsideRoot => rret.path = None /\ rret.reason # None
        /\ (RefOutsideRoot /\ PassesRejectionRules) => rret = Skip(Escapes)
        /\ (RefOutsideRoot /\ ~PassesRejectionRules) =>
               rret \in {Skip(TooLong), Skip(HasNewline), Skip(NeedsPrefix)}
        /\ rret.path # None => IsRelativeTo(rret.path[1], PROJECT_ROOT)

\* An existing file outside the project root is referenced with a "../"
\* prefix and rejected as escaping.
C3_Witness ==
    /\ rpc = "returned"
    /\ RefOutsideRoot
    /\ PassesRejectionRules
    /\ RefJoined \in rcall.fs.files
    /\ rret = Skip(Escapes)

\* -------------------------------------------------------- check_staleness

DocQuery == get_last_commit_time(world.git[world.doc_path])
DocUntracked == DocQuery.time = None /\ DocQuery.error = None
DocTracked == DocQuery.time # None
ReachedResolution == DocTracked /\ world.parsed.error = None

\* Declared dependency i resolves to an existing path inside the project.
DeclaredResolves(i) ==
    LET r == resolve_path(world.doc_path, world.parsed.deps[i], PROJECT_ROOT, world.fs) IN
    /\ r.path # None
    /\ PathExists(r.path[1], world.fs)
    /\ IsRelativeTo(r.path[1], PROJECT_ROOT)

SomeDeclaredResolves == \E i \in 1..Len(world.parsed.deps) : DeclaredResolves(i)

Listing == get_code_files_in_dir(Parent(world.doc_path), world.fs, world.dir_order)

\* The dependency set that is compared: the declared dependencies that
\* resolve or, when none does, the code files of the document's directory;
\* empty when the evaluation returns before comparing.
CheckedSet ==
    IF ~ReachedResolution THEN <<>>
    ELSE IF SomeDeclaredResolves
         THEN resolve_deps(world.doc_path, world.parsed.deps, PROJECT_ROOT, world.fs)
         ELSE IF Listing.error # None THEN <<>> ELSE Listing.files

DepQuery(i) == get_last_commit_time(world.git[CheckedSet[i]])
WithTimestamp == {i \in 1..Len(CheckedSet) : DepQuery(i).time # None}
WithQueryError == {i \in 1..Len(CheckedSet) : DepQuery(i).error # None}
KnownTimes == {DepQuery(i).time[1] : i \in WithTimestamp}
MaxOf(S) == CHOOSE m \in S : \A x \in S : x <= m

\* C1 as stated: an untracked document yields stale = false, no error and a
\* reason.
C1_UntrackedIsNotAnError ==
    (cpc = "returned" /\ DocUntracked) =>
        /\ result.stale = FALSE
        /\ result.error = None
        /\ result.reason # None

\* C2 as stated: with a tracked document, a non-empty dependency set of which
\* some member has a known timestamp and no query error, stale holds exactly
\* when the maximum known timestamp is later than the document's, and
\* newest_code_time is that maximum.
C2_StaleIffNewestIsLater ==
    (/\ cpc = "returned"
     /\ ReachedResolution
     /\ WithQueryError = {}
     /\ KnownTimes # {}) =>
        /\ result.stale <=> (MaxOf(KnownTimes) > DocQuery.time[1])
        /\ result.newest_code_time = Some(MaxOf(KnownTimes))

\* C4: the directory scan runs exactly when the evaluation reaches the
\* resolution of the declared dependencies and none of them resolves; when
\* one resolves the scan does not run and deps_source is "explicit";
\* deps_source is "explicit" only if a declared dependency resolved to an
\* existing path inside the project, and "directory" whenever none did.
C4_ExplicitOverFallback ==
    cpc = "returned" =>
        /\ scanned <=> (ReachedResolution /\ ~SomeDeclaredResolves)
        /\ (ReachedResolution /\ SomeDeclaredResolves) =>
               (~scanned /\ result.deps_source = "explicit")
        /\ result.deps_source = "explicit" => SomeDeclaredResolves
        /\ (ReachedResolution /\ ~SomeDeclaredResolves) =>
               result.deps_source = "directory"

\* One declared dependency resolves, another is skipped, and the directory
\* holds a code file the scan would have found.
C4_Witness ==
    /\ cpc = "returned"
    /\ ReachedResolution
    /\ SomeDeclaredResolves
    /\ \E i \in 1..Len(world.parsed.deps) : ~DeclaredResolves(i)
    /\ Listing.files # <<>>
    /\ ~scanned
    /\ result.deps_source = "explicit"

\* C5: a stale result has no error, both timestamps, and a dependency
\* timestamp later than the document's; a result with an error is not stale.
C5_StaleIsJustified ==
    cpc = "returned" =>
        /\ result.stale =>
              /\ result.error = None
              /\ result.doc_time # None
              /\ result.newest_code_time # None
              /\ result.newest_code_time[1] > result.doc_time[1]
        /\ result.error # None => ~result.stale

\* A stale result: the newest dependency is later than the document.
C5_Witness ==
    /\ cpc = "returned"
    /\ result.stale
    /\ result.newest_code_time[1] > result.doc_time[1]

\* C6: in a stale result days_behind and hours_behind are the whole days and
\* the remaining whole hours of newest_code_time - doc_time; in every other
\* result both are 0.
C6_DaysAndHours ==
    cpc = "returned" =>
        IF result.stale
        THEN LET delta == result.newest_code_time[1] - result.doc_time[1]
                 d == result.days_behind
                 h == result.hours_behind IN
             /\ d = delta \div 86400
             /\ h = (delta % 86400) \div 3600
             /\ 0 <= h /\ h <= 23
             /\ d * 86400 + h * 3600 <= delta
             /\ delta < d * 86400 + (h + 1) * 3600
        ELSE result.days_behind = 0 /\ result.hours_behind = 0

\* The two examples of the claim: 90000 s is 1 day 1 hour, 999000 s is
\* 11 days 13 hours.
C6_Witness ==
    /\ cpc = "returned"
    /\ result.stale
    /\ \/ /\ result.newest_code_time[1] - result.doc_time[1] = 90000
          /\ result.days_behind = 1 /\ result.hours_behind = 1
       \/ /\ result.newest_code_time[1] - result.doc_time[1] = 999000
          /\ result.days_behind = 11 /\ result.hours_behind = 13

\* C8 as stated: dependencies whose query answers nothing, without an error,
\* do not abort the evaluation; a query error on a dependency of the compared
\* set aborts it with that error in the result.
C8_DependencyErrorAborts ==
    cpc = "returned" =>
        /\ (CheckedSet # <<>> /\ WithQueryError = {}) => result.error = None
        /\ WithQueryError # {} =>
              /\ result.error # None
              /\ result.error \in {DepQuery(i).error : i \in WithQueryError}

\* C9 as stated: deps_count is the number of dependencies of the compared
\* set that yielded a timestamp.
C9_CountsDependenciesWithTimestamp ==
    cpc = "returned" => result.deps_count = Cardinality(WithTimestamp)

\* ----------------------------------------------------------- cmd_validate

Errored == {i \in 1..Len(outcomes) : outcomes[i].error}
StaleOnly == {i \in 1..Len(outcomes) : ~outcomes[i].error /\ outcomes[i].stale}

\* C7 as stated: the exit code is 2 whenever an evaluated document's result
\* carries an error, 1 when a document is stale and none errored, and 0 only
\* when no document errored and none is stale.
C7_ExitCode ==
    (vpc = "exit" /\ exit_code # None) =>
        /\ Errored # {} => exit_code = Some(2)
        /\ (Errored = {} /\ StaleOnly # {}) => exit_code = Some(1)
        /\ exit_code = Some(0) => (Errored = {} /\ StaleOnly = {})

\* C10: in directory mode the loop evaluates the documents one by one, each
\* once, whatever the results before it; error_count is the number of results
\* with an error and stale_count the number of error-free stale results, so
\* their sum is at most the number of documents; the loop ends only after the
\* last document.
C10_BatchCountsEveryDocument ==
    (is_dir /\ vpc \in {"loop", "exit"} /\ ndocs > 0) =>
        /\ \A i \in 1..ndocs : evaluated[i] = IF i < idx THEN 1 ELSE 0
        /\ Len(outcomes) = idx - 1
        /\ error_count = Cardinality(Errored)
        /\ stale_count = Cardinality(StaleOnly)
        /\ error_count + stale_count <= ndocs
        /\ vpc = "exit" => idx = ndocs + 1

\* A batch whose first document errors and a later one is stale, run to the
\* end.
C10_Witness ==
    /\ is_dir /\ vpc = "exit" /\ ndocs >= 2
    /\ outcomes[1].error
    /\ \E i \in 2..ndocs : outcomes[i].stale
    /\ \A i \in 1..ndocs : evaluated[i] = 1
    /\ error_count >= 1 /\ stale_count >= 1

====
